---- MODULE Spec2Model ----
(***************************************************************************)
(* AutoExport plugin (src/auto_export/qt.py).                              *)
(*                                                                         *)
(* The UI thread runs the hooks (create_status_bar, load_wallet,           *)
(* close_wallet) and the settings dialog; every handler is one action,     *)
(* because the UI thread runs them one after the other.  Every call of     *)
(* call_repeatedly starts a thread; a thread takes one step per source     *)
(* line that reads shared state (the Event, the plugin's attributes, the   *)
(* wallet), so the UI handlers interleave with it at every such line.      *)
(* Time is not modelled: a wait(interval) that is not woken by the Event   *)
(* may time out at any moment.                                             *)
(***************************************************************************)
EXTENDS Integers, Sequences, FiniteSets, TLC

VARIABLES
    config,                           \* the host's persisted settings store (self.config)
    autoexport_interval_seconds,      \* the plugin's attributes, set by update_settings
    autoexport_need_export_to_local,
    autoexport_need_export_to_ftp,
    autoexport_local_path,
    autoexport_ftp_host,
    autoexport_ftp_port,
    autoexport_ftp_user,
    autoexport_ftp_password,
    autoexport_ftp_dir,
    wallet,                           \* self.wallet
    timer,                            \* self.timer: None, or the cancel handle of a thread
    status_button,                    \* self.status_button
    stopped,                          \* per thread: the threading.Event of call_repeatedly
    period,                           \* per thread: the interval given to call_repeatedly
    pc,                               \* per thread: the line it is at
    effects                           \* the calls and the I/O of the observed thread's current cycle

attrs == <<autoexport_interval_seconds, autoexport_need_export_to_local,
           autoexport_need_export_to_ftp, autoexport_local_path, autoexport_ftp_host,
           autoexport_ftp_port, autoexport_ftp_user, autoexport_ftp_password,
           autoexport_ftp_dir>>

threads == <<stopped, period, pc, effects>>

vars == <<config, attrs, wallet, timer, status_button, threads>>

\* The number of call_repeatedly calls a run makes.
MaxTimers == 2

Threads == 1..MaxTimers

None == 0

\* The wallet the host hands to load_wallet.
Wallet == 1

(***************************************************************************)
(* Configurations.                                                         *)
(***************************************************************************)

Cfg(i, l, f, p, h, o, u, w, d) ==
    [autoexport_interval_seconds |-> i, autoexport_need_export_to_local |-> l,
     autoexport_need_export_to_ftp |-> f, autoexport_local_path |-> p,
     autoexport_ftp_host |-> h, autoexport_ftp_port |-> o, autoexport_ftp_user |-> u,
     autoexport_ftp_password |-> w, autoexport_ftp_dir |-> d]

\* config.get(key, default) on an empty store.  The port's default is the
\* integer 21, the dialog stores the port as text; both are truthy and
\* int() gives 21 for both, so the text stands for both here.
DefaultConfig == Cfg(0, FALSE, FALSE, "", "", "21", "", "", "")

\* What the user may accept in the settings dialog.
DialogInputs ==
    { Cfg(1, TRUE, TRUE, "/a", "hostA", "21", "userA", "pwA", ""),
      Cfg(2, TRUE, TRUE, "/b", "hostB", "2121", "userB", "pwB", "dirB"),
      Cfg(0, TRUE, FALSE, "/a", "", "21", "", "", ""),
      Cfg(1, TRUE, TRUE, "", "", "", "", "", "") }

\* Every combination of set and unset fields, for the export cycle alone.
AllConfigs ==
    { Cfg(1, l, f, p, h, o, u, w, d) :
        l \in BOOLEAN, f \in BOOLEAN, p \in {"", "/a"}, h \in {"", "hostA"},
        o \in {"", "21"}, u \in {"", "userA"}, w \in {"", "pwA"}, d \in {"", "dirA"} }

\* Python truthiness of a text field and of the interval.
Truthy(s) == s # ""

NonZero(n) == n # 0

(***************************************************************************)
(* The status indicator.  secs = 0 stands for the label "AutoExport",      *)
(* secs = n for "AutoExport: nsec.".                                       *)
(***************************************************************************)

NoButton == [icon |-> "none", secs |-> 0]

auto_export_enabled == autoexport_need_export_to_local \/ autoexport_need_export_to_ftp

StatusFor(interval, enabled) ==
    IF NonZero(interval) /\ enabled
    THEN [icon |-> "status_connected", secs |-> interval]
    ELSE [icon |-> "status_disconnected", secs |-> 0]

(***************************************************************************)
(* call_repeatedly.                                                        *)
(***************************************************************************)

Started == {t \in Threads : pc[t] # "unstarted"}

NewThread == Cardinality(Started) + 1

\* The state of the threads after call_repeatedly(interval, self.export_csv),
\* given the Events as they are after the handler's cancellations.
call_repeatedly(t, interval, events) ==
    /\ stopped' = [events EXCEPT ![t] = FALSE]
    /\ period' = [period EXCEPT ![t] = interval]
    /\ pc' = [pc EXCEPT ![t] = "loop_67"]
    /\ UNCHANGED effects

\* stopped.set() through the handle h (None: no handle).
Cancel(h) == IF h = None THEN stopped ELSE [stopped EXCEPT ![h] = TRUE]

(***************************************************************************)
(* The UI thread.                                                          *)
(***************************************************************************)

create_status_bar ==
    /\ status_button' = StatusFor(autoexport_interval_seconds, auto_export_enabled)
    /\ UNCHANGED <<config, attrs, wallet, timer, threads>>

\* The host builds a window's status bar before it loads the wallet into it.
load_wallet ==
    /\ status_button # NoButton
    /\ wallet' = Wallet
    /\ IF ~NonZero(autoexport_interval_seconds)
       THEN UNCHANGED <<timer, threads>>
       ELSE /\ NewThread \in Threads
            /\ timer' = NewThread
            /\ call_repeatedly(NewThread, autoexport_interval_seconds, stopped)
    /\ UNCHANGED <<config, attrs, status_button>>

close_wallet ==
    /\ status_button # NoButton
    /\ wallet' = None
    /\ stopped' = Cancel(timer)
    /\ UNCHANGED <<config, attrs, timer, status_button, period, pc, effects>>

\* update_settings(initial=False), reading the store c.
update_settings(c) ==
    /\ autoexport_interval_seconds' = c.autoexport_interval_seconds
    /\ autoexport_need_export_to_local' = c.autoexport_need_export_to_local
    /\ autoexport_need_export_to_ftp' = c.autoexport_need_export_to_ftp
    /\ autoexport_local_path' = c.autoexport_local_path
    /\ autoexport_ftp_host' = c.autoexport_ftp_host
    /\ autoexport_ftp_port' = c.autoexport_ftp_port
    /\ autoexport_ftp_user' = c.autoexport_ftp_user
    /\ autoexport_ftp_password' = c.autoexport_ftp_password
    /\ autoexport_ftp_dir' = c.autoexport_ftp_dir
    /\ IF wallet = None \/ ~NonZero(c.autoexport_interval_seconds)
       THEN /\ timer' = None
            /\ stopped' = Cancel(timer)
            /\ UNCHANGED <<status_button, period, pc, effects>>
       ELSE /\ NewThread \in Threads
            /\ timer' = NewThread
            /\ call_repeatedly(NewThread, c.autoexport_interval_seconds, Cancel(timer))
            /\ status_button' = StatusFor(c.autoexport_interval_seconds,
                                          c.autoexport_need_export_to_local
                                            \/ c.autoexport_need_export_to_ftp)

\* The dialog is accepted with the fields c: nine set_key calls, then update_settings().
settings_dialog ==
    \E c \in DialogInputs :
        /\ config' = c
        /\ update_settings(c)
            /\ UNCHANGED wallet

(***************************************************************************)
(* The thread of call_repeatedly: loop().                                  *)
(***************************************************************************)

\* A call or an I/O operation, with the attribute values it was given.
Ev(kind, a, b) == <<kind, a, b>>

Connect == Ev("ftp:connect", autoexport_ftp_host, autoexport_ftp_port)

Login == Ev("ftp:login", autoexport_ftp_user, autoexport_ftp_password)

Cwd == Ev("ftp:cwd", autoexport_ftp_dir, "")

Goto(t, l) == pc' = [pc EXCEPT ![t] = l]

\* The log is kept for one thread, the first one started.
Observed == CHOOSE t \in Threads : \A u \in Threads : t <= u

Effect(t, es) ==
    effects' = IF t = Observed THEN effects \o es ELSE effects

\* A new cycle, or the wait after one: the log starts again.
Reset(t, es) ==
    effects' = IF t = Observed THEN es ELSE effects

ui == <<config, attrs, wallet, timer, status_button>>

\* stopped.wait(interval) returns True: the Event is set, the loop ends.
loop_67_stopped(t) ==
    /\ pc[t] = "loop_67"
    /\ stopped[t]
    /\ Goto(t, "exit")
    /\ UNCHANGED <<ui, stopped, period, effects>>

\* stopped.wait(interval) returns False: the interval passed with the Event unset.
loop_67_timeout(t) ==
    /\ pc[t] = "loop_67"
    /\ ~stopped[t]
    /\ Goto(t, "loop_68")
    /\ UNCHANGED <<ui, stopped, period, effects>>

\* func(*args): export_csv is entered.
loop_68(t) ==
    /\ pc[t] = "loop_68"
    /\ Goto(t, "export_csv_76")
    /\ Reset(t, <<Ev("export_csv", "", "")>>)
    /\ UNCHANGED <<ui, stopped, period>>

\* export_csv returns to loop().
Return(t, es) ==
    /\ Goto(t, "loop_68_return")
    /\ Effect(t, es)

\* An exception nothing catches ends the thread.
export_csv_local_uncaught == "crashed"

\* A handler around both sinks instead of one in each: the cycle ends at
\* the first failure.
export_csv_local_except_outer == "loop_68_return"

\* Where control goes when an exception is raised inside export_csv_local:
\* the handler of lines 120-121 logs it and the function returns to export_csv.
export_csv_local_except == "export_csv_78"

\* Where control goes when an exception is raised inside export_csv_ftp:
\* the handler of lines 167-168 logs it and the function returns to export_csv,
\* which returns to loop().
export_csv_ftp_except == "loop_68_return"

\* An exception raised at thread t whose handler continues at target.  A target
\* outside the code is an exception nothing catches: it ends the thread.
Raise(t, target, es) ==
    Goto(t, target) /\ Effect(t, es)

\* not self.autoexport_local_path
local_path_missing(path) == ~Truthy(path)

\* Only the first field of the pair is tested.
ftp_settings_missing_first(a, b) == ~Truthy(a)

\* not host or not port, not user or not password
ftp_settings_missing(a, b) == ~Truthy(a) \/ ~Truthy(b)

\* func has returned: the loop goes back to stopped.wait(interval).
loop_68_return(t) ==
    /\ pc[t] = "loop_68_return"
    /\ Goto(t, "loop_67")
    /\ Reset(t, << >>)
    /\ UNCHANGED <<ui, stopped, period>>

export_csv_76(t) ==
    /\ pc[t] = "export_csv_76"
    /\ IF autoexport_need_export_to_local
       THEN Goto(t, "export_csv_local_109") /\ Effect(t, <<Ev("export_csv_local", "", "")>>)
       ELSE Goto(t, "export_csv_78") /\ UNCHANGED effects
    /\ UNCHANGED <<ui, stopped, period>>

export_csv_local_109(t) ==
    /\ pc[t] = "export_csv_local_109"
    /\ IF local_path_missing(autoexport_local_path)
       THEN Goto(t, "export_csv_78")
       ELSE Goto(t, "export_csv_local_114")
    /\ UNCHANGED <<ui, stopped, period, effects>>

\* get_exported_data: self.wallet.get_history() raises when the wallet is None.
export_csv_local_114(t) ==
    /\ pc[t] = "export_csv_local_114"
    /\ IF wallet = None
       THEN Raise(t, export_csv_local_except, <<Ev("local:print_error", "", "")>>)
       ELSE Goto(t, "export_csv_local_116") /\ Effect(t, <<Ev("local:get_history", "", "")>>)
    /\ UNCHANGED <<ui, stopped, period>>

\* open(filepath, "w+") and the rows written: either may fail.
export_csv_local_116(t) ==
    /\ pc[t] = "export_csv_local_116"
    /\ \E outcome \in {"ok", "open_error", "write_error"} :
         IF outcome = "ok"
         THEN Goto(t, "export_csv_78") /\ Effect(t, <<Ev("local:open", autoexport_local_path, "")>>)
         ELSE Raise(t, export_csv_local_except,
                    (IF outcome = "write_error"
                     THEN <<Ev("local:open", autoexport_local_path, "")>> ELSE << >>)
                      \o <<Ev("local:print_error", "", "")>>)
    /\ UNCHANGED <<ui, stopped, period>>

export_csv_78(t) ==
    /\ pc[t] = "export_csv_78"
    /\ IF autoexport_need_export_to_ftp
       THEN Goto(t, "export_csv_ftp_143") /\ Effect(t, <<Ev("export_csv_ftp", "", "")>>)
       ELSE Return(t, << >>)
    /\ UNCHANGED <<ui, stopped, period>>

export_csv_ftp_143(t) ==
    /\ pc[t] = "export_csv_ftp_143"
    /\ IF ftp_settings_missing(autoexport_ftp_host, autoexport_ftp_port)
       THEN Return(t, << >>)
       ELSE Goto(t, "export_csv_ftp_145") /\ UNCHANGED effects
    /\ UNCHANGED <<ui, stopped, period>>

export_csv_ftp_145(t) ==
    /\ pc[t] = "export_csv_ftp_145"
    /\ IF ftp_settings_missing(autoexport_ftp_user, autoexport_ftp_password)
       THEN Return(t, << >>)
       ELSE Goto(t, "export_csv_ftp_149") /\ UNCHANGED effects
    /\ UNCHANGED <<ui, stopped, period>>

export_csv_ftp_149(t) ==
    /\ pc[t] = "export_csv_ftp_149"
    /\ IF wallet = None
       THEN Raise(t, export_csv_ftp_except, <<Ev("ftp:print_error", "", "")>>)
       ELSE Goto(t, "export_csv_ftp_152") /\ Effect(t, <<Ev("ftp:get_history", "", "")>>)
    /\ UNCHANGED <<ui, stopped, period>>

\* ftp.connect(host, int(port)): int('') raises before any connection is tried.
export_csv_ftp_152(t) ==
    /\ pc[t] = "export_csv_ftp_152"
    /\ IF ~Truthy(autoexport_ftp_port)
       THEN Raise(t, export_csv_ftp_except, <<Ev("ftp:print_error", "", "")>>)
       ELSE \E ok \in BOOLEAN :
              IF ok
              THEN Goto(t, "export_csv_ftp_153") /\ Effect(t, <<Connect>>)
              ELSE Raise(t, export_csv_ftp_except, <<Connect, Ev("ftp:print_error", "", "")>>)
    /\ UNCHANGED <<ui, stopped, period>>

export_csv_ftp_153(t) ==
    /\ pc[t] = "export_csv_ftp_153"
    /\ \E ok \in BOOLEAN :
         IF ok
         THEN Goto(t, "export_csv_ftp_154") /\ Effect(t, <<Login>>)
         ELSE Raise(t, export_csv_ftp_except, <<Login, Ev("ftp:print_error", "", "")>>)
    /\ UNCHANGED <<ui, stopped, period>>

export_csv_ftp_154(t) ==
    /\ pc[t] = "export_csv_ftp_154"
    /\ IF ~Truthy(autoexport_ftp_dir)
       THEN Goto(t, "export_csv_ftp_157") /\ UNCHANGED effects
       ELSE \E ok \in BOOLEAN :
              IF ok
              THEN Goto(t, "export_csv_ftp_157") /\ Effect(t, <<Cwd>>)
              ELSE Raise(t, export_csv_ftp_except, <<Cwd, Ev("ftp:print_error", "", "")>>)
    /\ UNCHANGED <<ui, stopped, period>>

\* The rows serialised, ftp.storlines, ftp.close.
export_csv_ftp_157(t) ==
    /\ pc[t] = "export_csv_ftp_157"
    /\ \E ok \in BOOLEAN :
         IF ok
         THEN Return(t, <<Ev("ftp:storlines", "", "")>>)
         ELSE Raise(t, export_csv_ftp_except, <<Ev("ftp:storlines", "", ""), Ev("ftp:print_error", "", "")>>)
    /\ UNCHANGED <<ui, stopped, period>>

loop(t) ==
    \/ loop_67_stopped(t)
    \/ loop_67_timeout(t)
    \/ loop_68(t)
    \/ loop_68_return(t)
    \/ export_csv_76(t)
    \/ export_csv_local_109(t)
    \/ export_csv_local_114(t)
    \/ export_csv_local_116(t)
    \/ export_csv_78(t)
    \/ export_csv_ftp_143(t)
    \/ export_csv_ftp_145(t)
    \/ export_csv_ftp_149(t)
    \/ export_csv_ftp_152(t)
    \/ export_csv_ftp_153(t)
    \/ export_csv_ftp_154(t)
    \/ export_csv_ftp_157(t)

(***************************************************************************)
(* Specifications.                                                         *)
(***************************************************************************)

AttrsAre(c) ==
    /\ autoexport_interval_seconds = c.autoexport_interval_seconds
    /\ autoexport_need_export_to_local = c.autoexport_need_export_to_local
    /\ autoexport_need_export_to_ftp = c.autoexport_need_export_to_ftp
    /\ autoexport_local_path = c.autoexport_local_path
    /\ autoexport_ftp_host = c.autoexport_ftp_host
    /\ autoexport_ftp_port = c.autoexport_ftp_port
    /\ autoexport_ftp_user = c.autoexport_ftp_user
    /\ autoexport_ftp_password = c.autoexport_ftp_password
    /\ autoexport_ftp_dir = c.autoexport_ftp_dir

NoThreads ==
    /\ stopped = [t \in Threads |-> FALSE]
    /\ period = [t \in Threads |-> 0]
    /\ pc = [t \in Threads |-> "unstarted"]
    /\ effects = << >>

\* The plugin as __init__ leaves it: update_settings(initial=True) on the
\* store as an earlier session left it.
Init ==
    /\ config \in DialogInputs \cup {DefaultConfig}
    /\ AttrsAre(config)
    /\ wallet = None
    /\ timer = None
    /\ status_button = NoButton
    /\ NoThreads

Next ==
    \/ create_status_bar
    \/ load_wallet
    \/ close_wallet
    \/ settings_dialog
    \/ \E t \in Threads : loop(t)

Spec == Init /\ [][Next]_vars

\* One timer at work on a fixed configuration: the plugin after
\* create_status_bar and load_wallet, with any combination of set and unset
\* fields in the store and a non-zero interval.
ExportInit ==
    /\ config \in AllConfigs
    /\ AttrsAre(config)
    /\ wallet = Wallet
    /\ timer = 1
    /\ status_button = StatusFor(config.autoexport_interval_seconds,
                                 config.autoexport_need_export_to_local
                                   \/ config.autoexport_need_export_to_ftp)
    /\ stopped = [t \in Threads |-> FALSE]
    /\ period = [t \in Threads |-> IF t = 1 THEN config.autoexport_interval_seconds ELSE 0]
    /\ pc = [t \in Threads |-> IF t = 1 THEN "loop_67" ELSE "unstarted"]
    /\ effects = << >>

ExportNext ==
    \/ close_wallet
    \/ \E t \in Threads : loop(t)

ExportSpec == ExportInit /\ [][ExportNext]_vars

\* The interpreter schedules every thread that can run.
FairExportSpec == ExportSpec /\ \A t \in Threads : WF_vars(loop(t))

(***************************************************************************)
(* Properties.                                                             *)
(***************************************************************************)

\* Started and not yet cancelled.
Live(t) == pc[t] # "unstarted" /\ ~stopped[t]

LiveTimers == {t \in Threads : Live(t)}

\* Thread t calls func(*args): an export cycle begins.
Begins(t) == pc[t] = "loop_68" /\ pc'[t] = "export_csv_76"

\* Thread t is about to call func, or waits with its Event unset.
CanBegin(t) == pc[t] = "loop_68" \/ (pc[t] = "loop_67" /\ ~stopped[t])

InCycle(t) == pc[t] \notin {"unstarted", "loop_67", "loop_68", "exit", "crashed"}

Count(kind) == Cardinality({i \in DOMAIN effects : effects[i][1] = kind})

Done == pc[Observed] = "loop_68_return"

StoredConfigs == DialogInputs \cup {DefaultConfig}

\* C1: at most one timer thread is live (started and not yet cancelled) at
\* any time, whatever the sequence of load_wallet, close_wallet and
\* update_settings.
C1_AtMostOneLiveTimer == Cardinality(LiveTimers) <= 1

\* C2: once a timer's cancel handle has been invoked, no invocation of the
\* callback begins on that timer's thread.
C2_NoCallbackAfterCancel ==
    [][\A t \in Threads : Begins(t) => ~stopped[t]]_vars

\* C3: while the interval is 0, load_wallet and update_settings leave no
\* timer live, and no export cycle begins.
C3_ZeroIntervalNoTimer ==
    [][/\ (load_wallet \/ settings_dialog) /\ autoexport_interval_seconds' = 0
            => LiveTimers' = {}
       /\ \A t \in Threads : Begins(t) => autoexport_interval_seconds # 0]_vars

\* C4: a failure inside an export cycle never escapes export_csv and never
\* ends the loop: no thread dies of an exception, a thread leaves the loop
\* only after its Event is set, and a thread in a cycle calls the callback
\* again unless it is cancelled.
C4_FailuresNeverEndTheLoop ==
    /\ [](\A t \in Threads : pc[t] # "crashed" /\ (pc[t] = "exit" => stopped[t]))
    /\ \A t \in Threads : [](InCycle(t) => <>(pc[t] = "loop_68" \/ stopped[t]))

\* A failure was logged in the cycle that just returned, and the timer is
\* still live.
C4_Witness ==
    /\ Done
    /\ Count("local:print_error") + Count("ftp:print_error") > 0
    /\ ~stopped[Observed]

\* C5: after update_settings (not the initial one) on a window with a wallet
\* loaded, the indicator shows the connected state exactly when the interval
\* is non-zero and a sink is enabled.
C5_StatusAfterUpdate ==
    [][settings_dialog /\ wallet # None
         => (status_button'.icon = "status_connected"
               <=> /\ NonZero(autoexport_interval_seconds')
                   /\ (autoexport_need_export_to_local' \/ autoexport_need_export_to_ftp'))]_vars

\* C6: no export cycle begins while the wallet reference is cleared, that
\* is between a close_wallet and the next load_wallet.
C6_NoCycleWhileClosed ==
    [][\A t \in Threads : Begins(t) => wallet # None]_vars

\* C7: update_settings cancels every timer that was live, starts exactly one
\* timer with the new interval as its period when a wallet is loaded and the
\* interval is non-zero, and leaves no other thread able to begin a cycle.
C7_UpdateReplacesTimer ==
    [][settings_dialog =>
         /\ \A t \in Threads : Live(t) => stopped'[t]
         /\ (wallet # None /\ NonZero(autoexport_interval_seconds')
               => /\ Cardinality(Started') = Cardinality(Started) + 1
                  /\ timer' \in Started' \ Started
                  /\ period'[timer'] = autoexport_interval_seconds')
         /\ \A t \in Threads : CanBegin(t)' => t = timer']_vars

\* C8: in one export cycle on a fixed configuration each sink whose flag is
\* set is called exactly once, the FTP sink also after the local sink has
\* failed, and a sink whose flag is unset is not called.
C8_EachEnabledSinkOnce ==
    Done =>
        /\ Count("export_csv_local") = (IF autoexport_need_export_to_local THEN 1 ELSE 0)
        /\ Count("export_csv_ftp") = (IF autoexport_need_export_to_ftp THEN 1 ELSE 0)

\* The local sink failed and the FTP sink was still called and connected.
C8_Witness ==
    /\ Done
    /\ Count("local:print_error") = 1
    /\ Count("export_csv_ftp") = 1
    /\ Count("ftp:connect") = 1

\* C9: a sink whose settings are incomplete does nothing: with an empty
\* local_path the local sink reads no history, creates no file and logs
\* nothing; with host, port, user or password empty the FTP sink reads no
\* history, connects to nothing and logs nothing.
C9_IncompleteSinkIsNoOp ==
    /\ ~Truthy(autoexport_local_path)
         => Count("local:get_history") + Count("local:open") + Count("local:print_error") = 0
    /\ (\E f \in {autoexport_ftp_host, autoexport_ftp_port, autoexport_ftp_user,
                  autoexport_ftp_password} : ~Truthy(f))
         => Count("ftp:get_history") + Count("ftp:connect") + Count("ftp:login")
              + Count("ftp:cwd") + Count("ftp:storlines") + Count("ftp:print_error") = 0

\* Both sinks were called with incomplete settings (only the password is
\* missing for FTP) and the cycle returned.
C9_Witness ==
    /\ Done
    /\ Count("export_csv_local") = 1 /\ ~Truthy(autoexport_local_path)
    /\ Count("export_csv_ftp") = 1 /\ ~Truthy(autoexport_ftp_password)
    /\ Truthy(autoexport_ftp_host) /\ Truthy(autoexport_ftp_port)
    /\ Truthy(autoexport_ftp_user)

\* The event e is what configuration c makes a cycle do.
FromConfig(e, c) ==
    CASE e[1] = "export_csv_local" -> c.autoexport_need_export_to_local
      [] e[1] = "export_csv_ftp" -> c.autoexport_need_export_to_ftp
      [] e[1] = "local:open" -> e[2] = c.autoexport_local_path
      [] e[1] = "ftp:connect" -> e[2] = c.autoexport_ftp_host /\ e[3] = c.autoexport_ftp_port
      [] e[1] = "ftp:login" -> e[2] = c.autoexport_ftp_user /\ e[3] = c.autoexport_ftp_password
      [] e[1] = "ftp:cwd" -> e[2] = c.autoexport_ftp_dir
      [] OTHER -> TRUE

\* C10: everything an export cycle does comes from one configuration: the
\* sinks it calls, the path it opens, the host and port it connects to, the
\* user and password it logs in with and the directory it changes to are
\* those of a single content of the store.
C10_OneConfigurationPerCycle ==
    \E c \in StoredConfigs : \A i \in DOMAIN effects : FromConfig(effects[i], c)

====
